---- MODULE Spec2Model ----
(***************************************************************************)
(* Model of font_tracer: bezier_sampling.py (bezier_curve) and             *)
(* font2vertices.py (trace_cubic_off_points, trace_conic_off_points,       *)
(* glyph2vertices, vertices2lines), composed as FontTracer.load_font does. *)
(*                                                                         *)
(* Numbers.  The program computes in IEEE floats; the model computes in    *)
(* exact rationals <<numerator, denominator>> (denominator > 0, lowest     *)
(* terms), so two values are equal iff their representations are equal.    *)
(* A point is a pair <<x, y>> of rationals.  A flat array (what reshape(-1)*)
(* and np.concatenate of 1-D arrays produce) is a sequence of rationals,   *)
(* two per point.                                                          *)
(***************************************************************************)
EXTENDS Integers, Sequences, FiniteSets, TLC

VARIABLES
    pc,               \* position of the running call
    points,           \* glyph.outline.points / c_points / control points
    tags,             \* FT_CURVE_TAG of every point
    contours,         \* glyph.outline.contours: inclusive end indices
    vertAdvance,      \* glyph.metrics.vertAdvance
    n_segments,       \* n_segments / n_samples argument
    idx,              \* idx argument of the arc tracers
    prev_c,           \* glyph2vertices: end index of the previous contour
    ci,               \* glyph2vertices: number of contour ends consumed
    c_draw_contours,  \* glyph2vertices: traced contours so far
    vi,               \* vertices2lines: number of contours consumed
    lines,            \* vertices2lines: flat line buffer so far
    ret,              \* value returned by a directly called function
    err               \* exception that ended the call, or NoError

vars == <<pc, points, tags, contours, vertAdvance, n_segments, idx, prev_c,
          ci, c_draw_contours, vi, lines, ret, err>>

----------------------------------------------------------------------------
(* Bounds of the model *)

\* Largest number of points of an outline or contour.
MaxPts == 4

\* Largest segment / sample count tried.
MaxSeg == 5

\* Largest vertical advance tried.
MaxAdv == 2

\* Largest coordinate of a control point handed directly to bezier_curve.
MaxCoord == 1

----------------------------------------------------------------------------
(* freetype's curve tags, as font2vertices.py compares them *)

FT_Curve_Tag_Conic == 0
FT_Curve_Tag_On == 1
FT_Curve_Tag_Cubic == 2

\* FT_CURVE_TAG(t) keeps the two low bits of the raw tag byte.
FT_CURVE_TAG(t) == t % 4

----------------------------------------------------------------------------
(* Exact arithmetic standing for numpy's float arithmetic *)

Abs(x) == IF x < 0 THEN -x ELSE x

RECURSIVE GCD(_, _)
GCD(a, b) == IF b = 0 THEN a ELSE GCD(b, a % b)

\* The rational n/d in lowest terms with a positive denominator (d # 0).
Rat(n, d) ==
    LET g == GCD(Abs(n), Abs(d))
        s == IF d < 0 THEN -1 ELSE 1
    IN  <<(s * n) \div g, (s * d) \div g>>

RInt(n) == <<n, 1>>
RAdd(a, b) == Rat(a[1] * b[2] + b[1] * a[2], a[2] * b[2])
RSub(a, b) == Rat(a[1] * b[2] - b[1] * a[2], a[2] * b[2])
RMul(a, b) == Rat(a[1] * b[1], a[2] * b[2])
RDivInt(a, k) == Rat(a[1], a[2] * k)

RECURSIVE RPow(_, _)
RPow(a, k) == IF k = 0 THEN RInt(1) ELSE RMul(a, RPow(a, k - 1))

PAdd(p, q) == <<RAdd(p[1], q[1]), RAdd(p[2], q[2])>>
PScale(c, p) == <<RMul(c, p[1]), RMul(c, p[2])>>
PDivInt(p, k) == <<RDivInt(p[1], k), RDivInt(p[2], k)>>
PInt(p) == <<RInt(p[1]), RInt(p[2])>>

----------------------------------------------------------------------------
(* Python / numpy containers *)

NoError == [type |-> "none", idx |-> -1, tag |-> -1]
IndexError == [type |-> "IndexError", idx |-> -1, tag |-> -1]
ValueError(i, t) == [type |-> "ValueError", idx |-> i, tag |-> t]
LinspaceError == [type |-> "ValueError", idx |-> -1, tag |-> -1]

Returned(v) == [err |-> NoError, val |-> v]
Raised(e) == [err |-> e, val |-> <<>>]

\* a[k] for a Python index k of a list or array of length Len(a): a negative
\* k counts from the end; outside -Len(a) .. Len(a)-1 it raises IndexError.
InRange(a, k) == k >= -Len(a) /\ k < Len(a)
PyIndex(a, k) == IF k < 0 THEN a[Len(a) + k + 1] ELSE a[k + 1]

\* a[lo:hi] for Python slice bounds: negative bounds count from the end,
\* bounds are clamped to the array, an inverted range is empty.
PyClamp(a, k) ==
    IF k < 0 THEN (IF Len(a) + k < 0 THEN 0 ELSE Len(a) + k)
    ELSE IF k > Len(a) THEN Len(a) ELSE k
PySlice(a, lo, hi) == SubSeq(a, PyClamp(a, lo) + 1, PyClamp(a, hi))

\* reshape(-1) of an (M, 2) array: the coordinates in row order.
Reshape(pts) == [j \in 1..(2 * Len(pts)) |-> pts[(j + 1) \div 2][2 - (j % 2)]]

----------------------------------------------------------------------------
(* bezier_sampling.py *)

RECURSIVE Fact(_)
Fact(n) == IF n <= 1 THEN 1 ELSE n * Fact(n - 1)

\* scipy.special.comb(n, i)
comb(n, i) == Fact(n) \div (Fact(i) * Fact(n - i))

\* np.linspace(start, stop, num) for num >= 0: num values, the k-th being
\* start + k * (stop - start) / (num - 1); a single value is start.
\* linspace without its end point: steps of (stop - start) / num.
linspace_open(start, stop, num) ==
    [k \in 1..num |-> RAdd(RInt(start), Rat((k - 1) * (stop - start), num))]

linspace(start, stop, num) ==
    [k \in 1..num |->
        IF num = 1 THEN RInt(start)
        ELSE RAdd(RInt(start), Rat((k - 1) * (stop - start), num - 1))]

\* bernstein_poly with the two exponents exchanged.
bernstein_poly_swapped(i, n, t) ==
    RMul(RInt(comb(n, i)), RMul(RPow(t, i), RPow(RSub(RInt(1), t), n - i)))

bernstein_poly(i, n, t) ==
    RMul(RInt(comb(n, i)), RMul(RPow(t, n - i), RPow(RSub(RInt(1), t), i)))

RECURSIVE DotRow(_, _, _, _)
\* One row of np.dot(transpose(polynomial_array), points): the sum over the
\* control points i..n_points of bernstein_poly(i-1, n_points-1, t) * points[i].
DotRow(pts, t, i, acc) ==
    IF i > Len(pts) THEN acc
    ELSE DotRow(pts, t, i + 1,
                PAdd(acc, PScale(bernstein_poly(i - 1, Len(pts) - 1, t), pts[i])))

\* bezier_curve(points, n_samples): an (n_samples, 2) array, or the
\* ValueError np.linspace raises for a negative count.
bezier_curve(pts, n_samples) ==
    IF n_samples < 0 THEN Raised(LinspaceError)
    ELSE LET t == linspace(1, 0, n_samples)
         IN  Returned([k \in 1..n_samples |->
                          DotRow(pts, t[k], 1, PInt(<<0, 0>>))])

----------------------------------------------------------------------------
(* font2vertices.py: the arc tracers *)

\* The index after idx: the first point when idx is the contour's last.
IdxNext(c_points, i) == IF i = Len(c_points) - 1 THEN 0 ELSE i + 1

\* trace_cubic_off_points without the wrap of idx_next to 0.
trace_cubic_no_wrap(c_points, c_tags, i, n) ==
    LET idx_prev == i - 1
        idx_next == i + 1
    IN  IF PyIndex(c_tags, idx_prev) = FT_Curve_Tag_Cubic
           /\ PyIndex(c_tags, i) = FT_Curve_Tag_Cubic
        THEN IF ~InRange(c_points, idx_prev - 1) \/ ~InRange(c_points, idx_next)
             THEN Raised(IndexError)
             ELSE LET b == bezier_curve(<<PyIndex(c_points, idx_prev - 1),
                                          PyIndex(c_points, idx_prev),
                                          PyIndex(c_points, i),
                                          PyIndex(c_points, idx_next)>>, n)
                  IN  IF b.err # NoError THEN b ELSE Returned(Reshape(b.val))
        ELSE Returned(<<>>)

\* trace_cubic_off_points(c_points, c_tags, idx, n_segments), 0 <= idx < len.
trace_cubic_off_points(c_points, c_tags, i, n) ==
    LET idx_prev == i - 1
        idx_next == IdxNext(c_points, i)
    IN  IF PyIndex(c_tags, idx_prev) = FT_Curve_Tag_Cubic
           /\ PyIndex(c_tags, i) = FT_Curve_Tag_Cubic
        THEN IF ~InRange(c_points, idx_prev - 1)
             THEN Raised(IndexError)
             ELSE LET b == bezier_curve(<<PyIndex(c_points, idx_prev - 1),
                                          PyIndex(c_points, idx_prev),
                                          PyIndex(c_points, i),
                                          PyIndex(c_points, idx_next)>>, n)
                  IN  IF b.err # NoError THEN b ELSE Returned(Reshape(b.val))
        ELSE Returned(<<>>)

\* The first point instead of the middle.
Midpoint_first(p, q) == p

\* (p + q) / 2
Midpoint(p, q) == PDivInt(PAdd(p, q), 2)

\* trace_conic_off_points taking the previous point itself as the start anchor
\* even when it is OffConic.
trace_conic_prev_anchor_only(c_points, c_tags, i, n) ==
    LET idx_prev == i - 1
        idx_next == IdxNext(c_points, i)
        tag_prev == PyIndex(c_tags, idx_prev)
        tag_next == PyIndex(c_tags, idx_next)
        point_start == PyIndex(c_points, idx_prev)
        point_end == IF tag_next = FT_Curve_Tag_On
                     THEN PyIndex(c_points, idx_next)
                     ELSE Midpoint(PyIndex(c_points, i), PyIndex(c_points, idx_next))
    IN  IF tag_prev \notin {FT_Curve_Tag_On, FT_Curve_Tag_Conic}
        THEN Raised(ValueError(i, tag_prev))
        ELSE IF tag_next \notin {FT_Curve_Tag_On, FT_Curve_Tag_Conic}
        THEN Raised(ValueError(i, tag_next))
        ELSE LET b == bezier_curve(<<point_start, PyIndex(c_points, i), point_end>>, n)
             IN  IF b.err # NoError THEN b ELSE Returned(Reshape(b.val))

\* trace_conic_off_points without the two raise branches.
trace_conic_no_check(c_points, c_tags, i, n) ==
    LET idx_prev == i - 1
        idx_next == IdxNext(c_points, i)
        tag_prev == PyIndex(c_tags, idx_prev)
        tag_next == PyIndex(c_tags, idx_next)
        point_start == IF tag_prev = FT_Curve_Tag_Conic
                       THEN Midpoint(PyIndex(c_points, i), PyIndex(c_points, idx_prev))
                       ELSE PyIndex(c_points, idx_prev)
        point_end == IF tag_next = FT_Curve_Tag_Conic
                     THEN Midpoint(PyIndex(c_points, i), PyIndex(c_points, idx_next))
                     ELSE PyIndex(c_points, idx_next)
        b == bezier_curve(<<point_start, PyIndex(c_points, i), point_end>>, n)
    IN  IF b.err # NoError THEN b ELSE Returned(Reshape(b.val))

\* trace_conic_off_points(c_points, c_tags, idx, n_segments), 0 <= idx < len.
trace_conic_off_points(c_points, c_tags, i, n) ==
    LET idx_prev == i - 1
        idx_next == IdxNext(c_points, i)
        tag_prev == PyIndex(c_tags, idx_prev)
        tag_next == PyIndex(c_tags, idx_next)
        point_start == IF tag_prev = FT_Curve_Tag_On
                       THEN PyIndex(c_points, idx_prev)
                       ELSE Midpoint(PyIndex(c_points, i), PyIndex(c_points, idx_prev))
        point_end == IF tag_next = FT_Curve_Tag_On
                     THEN PyIndex(c_points, idx_next)
                     ELSE Midpoint(PyIndex(c_points, i), PyIndex(c_points, idx_next))
    IN  IF tag_prev \notin {FT_Curve_Tag_On, FT_Curve_Tag_Conic}
        THEN Raised(ValueError(i, tag_prev))
        ELSE IF tag_next \notin {FT_Curve_Tag_On, FT_Curve_Tag_Conic}
        THEN Raised(ValueError(i, tag_next))
        ELSE LET b == bezier_curve(<<point_start, PyIndex(c_points, i), point_end>>, n)
             IN  IF b.err # NoError THEN b ELSE Returned(Reshape(b.val))

----------------------------------------------------------------------------
(* font2vertices.py: glyph2vertices and vertices2lines *)

\* What the walk appends for point i (0-based) of the contour.
TracePoint(c_points, c_tags, i, n) ==
    IF c_tags[i + 1] = FT_Curve_Tag_On THEN Returned(Reshape(<<c_points[i + 1]>>))
    ELSE IF c_tags[i + 1] = FT_Curve_Tag_Conic
    THEN trace_conic_off_points(c_points, c_tags, i, n)
    ELSE IF c_tags[i + 1] = FT_Curve_Tag_Cubic
    THEN trace_cubic_off_points(c_points, c_tags, i, n)
    ELSE Returned(<<>>)

RECURSIVE TraceContour(_, _, _, _, _)
\* The loop "for i in range(len(c_points))" from index i on, c_draw_points
\* being the array accumulated so far; an exception ends the loop.
TraceContour(c_points, c_tags, i, c_draw_points, n) ==
    IF i >= Len(c_points) THEN Returned(c_draw_points)
    ELSE LET s == TracePoint(c_points, c_tags, i, n)
         IN  IF s.err # NoError THEN s
             ELSE TraceContour(c_points, c_tags, i + 1, c_draw_points \o s.val, n)

\* The walk's output left unscaled.
Normalize_missing(flat, adv) == flat

\* c_draw_points / glyph.metrics.vertAdvance
Normalize(flat, adv) == [j \in 1..Len(flat) |-> RDivInt(flat[j], adv)]

RECURSIVE Windows(_, _)
\* for i in range(i, len(contour), 2): lines ++ contour[i:i+4]
Windows(contour, i) ==
    IF i >= Len(contour) THEN <<>>
    ELSE PySlice(contour, i, i + 4) \o Windows(contour, i + 2)

\* The closing step always taking contour[-2:2].
CloseContour_odd_branch(contour) == PySlice(contour, -2, 2)

\* The closing step of vertices2lines.
CloseContour(contour) ==
    IF Len(contour) % 2 # 0 THEN PySlice(contour, -2, 2)
    ELSE PySlice(contour, 0, 2)

\* One iteration without the closing step.
FlattenContour_no_close(contour) == Windows(contour, 0)

\* What one iteration of "for contour in contours" appends to lines.
FlattenContour(contour) == Windows(contour, 0) \o CloseContour(contour)

----------------------------------------------------------------------------
(* Inputs *)

\* Segment counts handed to the arc tracers (the default 5 among them, and 1,
\* which the sampler accepts although its contract asks for at least 2).
SegCounts == {1, 2, 3, 5}

\* Segment counts a font is loaded with: load_font's n_segments, at least 2.
GlyphSegCounts == {2, 3, 5}

\* Outline coordinates in font units: a unit square and a generic outline.
SquarePool == <<<<0, 0>>, <<0, 1>>, <<1, 1>>, <<1, 0>>, <<0, 0>>, <<0, 1>>>>
GenericPool == <<<<0, 0>>, <<2, 8>>, <<6, 10>>, <<12, 4>>, <<10, 0>>, <<4, 2>>>>
Pools == {SquarePool, GenericPool}

\* np.array(glyph.outline.points): the first n points of a pool.
Outline(pool, n) == [k \in 1..n |-> PInt(pool[k])]

RECURSIVE SortedSeq(_)
SortedSeq(S) ==
    IF S = {} THEN <<>>
    ELSE LET m == CHOOSE x \in S : \A y \in S : x <= y
         IN  <<m>> \o SortedSeq(S \ {m})

\* The contour-end lists of an outline of n points: increasing, the last
\* being n - 1; an outline without points has no contour.
ContourEnds(n) ==
    IF n = 0 THEN {<<>>}
    ELSE {SortedSeq(S \cup {n - 1}) : S \in SUBSET (0..(n - 2))}

\* Control-point lists handed directly to bezier_curve.
ControlPoints ==
    UNION {[1..n -> {PInt(<<x, y>>) : x \in 0..MaxCoord, y \in 0..MaxCoord}]
             : n \in {2, 3, 4}}

\* The variables the glyph pipeline does not use before it starts.
Idle ==
    /\ prev_c = -1
    /\ ci = 0
    /\ c_draw_contours = <<>>
    /\ vi = 0
    /\ lines = <<>>
    /\ ret = <<>>
    /\ err = NoError

----------------------------------------------------------------------------
(* FontTracer.load_font: glyph2vertices, then vertices2lines on its result *)

Init ==
    /\ pc = "glyph2vertices"
    /\ \E n \in 0..MaxPts :
         /\ \E pool \in Pools : points = Outline(pool, n)
         /\ tags \in [1..n -> {FT_Curve_Tag_Conic, FT_Curve_Tag_On, FT_Curve_Tag_Cubic}]
         /\ contours \in ContourEnds(n)
    /\ vertAdvance \in 1..MaxAdv
    /\ n_segments \in GlyphSegCounts
    /\ idx = 0
    /\ Idle

\* tags.append(freetype.FT_CURVE_TAG(t)) for every raw tag.
CurveTags(raw) == [k \in 1..Len(raw) |-> FT_CURVE_TAG(raw[k])]

\* points[prev_c + 1:c + 1]
ContourSlice(a, prev, c) == PySlice(a, prev + 1, c + 1)

\* One iteration of "for c in contours": the traced contour, or the exception.
TraceOneContour(c) ==
    LET c_points == ContourSlice(points, prev_c, c)
        c_tags == ContourSlice(CurveTags(tags), prev_c, c)
        walked == TraceContour(c_points, c_tags, 0, <<>>, n_segments)
    IN  IF walked.err # NoError THEN walked
        ELSE Returned(Normalize(walked.val, vertAdvance))

G2V_Contour ==
    /\ pc = "glyph2vertices"
    /\ ci < Len(contours)
    /\ LET c == contours[ci + 1]
           traced == TraceOneContour(c)
       IN  IF traced.err # NoError
           THEN /\ pc' = "raised"
                /\ err' = traced.err
                /\ UNCHANGED <<prev_c, ci, c_draw_contours>>
           ELSE /\ c_draw_contours' = Append(c_draw_contours, traced.val)
                /\ prev_c' = c
                /\ ci' = ci + 1
                /\ UNCHANGED <<pc, err>>
    /\ UNCHANGED <<points, tags, contours, vertAdvance, n_segments, idx, vi, lines, ret>>

G2V_Return ==
    /\ pc = "glyph2vertices"
    /\ ci = Len(contours)
    /\ pc' = "vertices2lines"
    /\ UNCHANGED <<points, tags, contours, vertAdvance, n_segments, idx, prev_c,
                   ci, c_draw_contours, vi, lines, ret, err>>

V2L_Contour ==
    /\ pc = "vertices2lines"
    /\ vi < Len(c_draw_contours)
    /\ lines' = lines \o FlattenContour(c_draw_contours[vi + 1])
    /\ vi' = vi + 1
    /\ UNCHANGED <<pc, points, tags, contours, vertAdvance, n_segments, idx,
                   prev_c, ci, c_draw_contours, ret, err>>

V2L_Return ==
    /\ pc = "vertices2lines"
    /\ vi = Len(c_draw_contours)
    /\ pc' = "done"
    /\ UNCHANGED <<points, tags, contours, vertAdvance, n_segments, idx, prev_c,
                   ci, c_draw_contours, vi, lines, ret, err>>

Next == G2V_Contour \/ G2V_Return \/ V2L_Contour \/ V2L_Return

Spec == Init /\ [][Next]_vars

----------------------------------------------------------------------------
(* The arc tracers called on one contour *)

InitArc ==
    /\ pc = "arc"
    /\ \E n \in 1..MaxPts :
         /\ \E pool \in Pools : points = Outline(pool, n)
         /\ tags \in [1..n -> 0..3]
         /\ idx \in 0..(n - 1)
    /\ contours = <<>>
    /\ vertAdvance = 1
    /\ n_segments \in SegCounts
    /\ Idle

ArcCall(result, name) ==
    /\ pc = "arc"
    /\ pc' = name
    /\ ret' = result.val
    /\ err' = result.err
    /\ UNCHANGED <<points, tags, contours, vertAdvance, n_segments, idx, prev_c,
                   ci, c_draw_contours, vi, lines>>

TraceConicCall ==
    ArcCall(trace_conic_off_points(points, tags, idx, n_segments), "conic")

TraceCubicCall ==
    ArcCall(trace_cubic_off_points(points, tags, idx, n_segments), "cubic")

NextArc == TraceConicCall \/ TraceCubicCall

SpecArc == InitArc /\ [][NextArc]_vars

----------------------------------------------------------------------------
(* bezier_curve called on its own *)

InitSampler ==
    /\ pc = "sample"
    /\ points \in ControlPoints
    /\ n_segments \in (-1)..MaxSeg
    /\ tags = <<>>
    /\ contours = <<>>
    /\ vertAdvance = 1
    /\ idx = 0
    /\ Idle

BezierCall ==
    /\ pc = "sample"
    /\ LET b == bezier_curve(points, n_segments)
       IN  /\ ret' = b.val
           /\ err' = b.err
    /\ pc' = "sampled"
    /\ UNCHANGED <<points, tags, contours, vertAdvance, n_segments, idx, prev_c,
                   ci, c_draw_contours, vi, lines>>

NextSampler == BezierCall

SpecSampler == InitSampler /\ [][NextSampler]_vars

----------------------------------------------------------------------------
(* Vocabulary of the properties: the specification's own formulas, written  *)
(* without the program's operators.                                        *)

\* The points of a flat coordinate array, two scalars each.
PointsOf(flat) == [k \in 1..(Len(flat) \div 2) |-> <<flat[2 * k - 1], flat[2 * k]>>]

\* Point (or tag) i of a cyclic contour, i counted from 0 and wrapping.
At(a, i) == a[((i + 2 * Len(a)) % Len(a)) + 1]

RECURSIVE Binomial(_, _)
Binomial(n, k) ==
    IF k = 0 \/ k = n THEN 1 ELSE Binomial(n - 1, k - 1) + Binomial(n - 1, k)

RECURSIVE BernsteinSum(_, _, _)
\* Sum over i = 0 .. m of C(n-1, i) * u^i * (1-u)^(n-1-i) * P_i, n = Len(P).
BernsteinSum(P, u, m) ==
    LET term == PScale(RMul(RInt(Binomial(Len(P) - 1, m)),
                            RMul(RPow(u, m), RPow(RSub(RInt(1), u), Len(P) - 1 - m))),
                       P[m + 1])
    IN  IF m = 0 THEN term ELSE PAdd(BernsteinSum(P, u, m - 1), term)

\* The s >= 2 samples of the Bezier curve of P at u = k / (s - 1), k = 0 .. s-1.
BezierSamples(P, s) == [k \in 1..s |-> BernsteinSum(P, Rat(k - 1, s - 1), Len(P) - 1)]

\* a + (num/den) * (b - a)
Lerp(a, b, num, den) ==
    <<RAdd(a[1], RMul(Rat(num, den), RSub(b[1], a[1]))),
      RAdd(a[2], RMul(Rat(num, den), RSub(b[2], a[2])))>>

\* The anchor a conic point i takes from its neighbour j.
Anchor(P, T, i, j) ==
    IF At(T, j) = FT_Curve_Tag_On THEN At(P, j)
    ELSE <<RDivInt(RAdd(At(P, j)[1], At(P, i)[1]), 2),
           RDivInt(RAdd(At(P, j)[2], At(P, i)[2]), 2)>>

ConicArc(P, T, i, s) ==
    BezierSamples(<<Anchor(P, T, i, i - 1), At(P, i), Anchor(P, T, i, i + 1)>>, s)

CubicArc(P, i, s) ==
    BezierSamples(<<At(P, i - 2), At(P, i - 1), At(P, i), At(P, i + 1)>>, s)

SecondOfPair(T, i) ==
    At(T, i) = FT_Curve_Tag_Cubic /\ At(T, i - 1) = FT_Curve_Tag_Cubic

\* The piece the walk owes for point i of contour (P, T).
Piece(P, T, i, s) ==
    IF At(T, i) = FT_Curve_Tag_On THEN <<At(P, i)>>
    ELSE IF At(T, i) = FT_Curve_Tag_Conic THEN ConicArc(P, T, i, s)
    ELSE IF SecondOfPair(T, i) THEN CubicArc(P, i, s)
    ELSE <<>>

RECURSIVE Pieces(_, _, _, _)
Pieces(P, T, i, s) ==
    IF i >= Len(P) THEN <<>> ELSE Piece(P, T, i, s) \o Pieces(P, T, i + 1, s)

Scaled(pts, adv) ==
    [k \in 1..Len(pts) |-> <<RDivInt(pts[k][1], adv), RDivInt(pts[k][2], adv)>>]

\* First and last point index (from 0) of contour j of the outline.
FirstOf(j) == IF j = 1 THEN 0 ELSE contours[j - 1] + 1
LastOf(j) == contours[j]
ContourPoints(j) == SubSeq(points, FirstOf(j) + 1, LastOf(j) + 1)
ContourTags(j) == SubSeq(tags, FirstOf(j) + 1, LastOf(j) + 1)

\* glyph2vertices has just returned c_draw_contours.
JustTraced == pc = "vertices2lines" /\ vi = 0

----------------------------------------------------------------------------
(* C4 *)

\* C4: for 2 <= n <= 4 control points and s >= 2, bezier_curve returns exactly
\* s points, point k being the Bernstein sum at u = k/(s-1); the first is
\* control_points[0], the last control_points[n-1], and for n = 2 the points
\* interpolate the two endpoints uniformly.
C4_BezierIsBernstein ==
    (pc = "sampled" /\ n_segments >= 2) =>
        /\ err = NoError
        /\ Len(ret) = n_segments
        /\ \A k \in 1..n_segments :
             ret[k] = BernsteinSum(points, Rat(k - 1, n_segments - 1), Len(points) - 1)
        /\ ret[1] = points[1]
        /\ ret[n_segments] = points[Len(points)]
        /\ Len(points) = 2 =>
             \A k \in 1..n_segments :
                ret[k] = Lerp(points[1], points[2], k - 1, n_segments - 1)

C4_Witness ==
    /\ pc = "sampled"
    /\ n_segments = 5
    /\ Len(points) = 4
    /\ points[1] # points[4]
    /\ Len(ret) = 5
    /\ ret[1] = points[1]
    /\ ret[5] = points[4]
    /\ ret[3] \notin {points[k] : k \in 1..4}

----------------------------------------------------------------------------
(* C8 *)

\* C8: a sample count smaller than 2 is rejected with an invalid-argument
\* error and produces no output.
C8_SmallCountRejected ==
    (pc = "sampled" /\ n_segments < 2) => (err.type = "ValueError" /\ ret = <<>>)

----------------------------------------------------------------------------
(* C2, C3: the arc tracers *)

PrevTag == At(tags, idx - 1)
NextTag == At(tags, idx + 1)
Anchorable(t) == t \in {FT_Curve_Tag_On, FT_Curve_Tag_Conic}

\* C2: for an OffConic point idx whose neighbours are OnCurve or OffConic,
\* trace_conic_off_points samples the quadratic Bezier [start anchor,
\* points[idx], end anchor]; an anchor is the cyclic neighbour when that is
\* OnCurve and the midpoint of neighbour and points[idx] when it is OffConic,
\* the neighbours wrapping around the ends of the contour.
C2_ConicArc ==
    (/\ pc = "conic"
     /\ At(tags, idx) = FT_Curve_Tag_Conic
     /\ Anchorable(PrevTag) /\ Anchorable(NextTag)
     /\ n_segments >= 2) =>
        /\ err = NoError
        /\ Len(ret) = 2 * n_segments
        /\ PointsOf(ret) = ConicArc(points, tags, idx, n_segments)

\* The conic point is the contour's last, its next neighbour (index 0) is
\* OffConic and its previous one OnCurve.
C2_Witness ==
    /\ pc = "conic"
    /\ err = NoError
    /\ n_segments = 5
    /\ Len(points) = 4
    /\ idx = 3
    /\ tags = <<FT_Curve_Tag_Conic, FT_Curve_Tag_Cubic, FT_Curve_Tag_On, FT_Curve_Tag_Conic>>
    /\ points[1] # points[3]
    /\ PointsOf(ret)[1] = points[3]
    /\ PointsOf(ret)[5] = <<RDivInt(RAdd(points[1][1], points[4][1]), 2),
                            RDivInt(RAdd(points[1][2], points[4][2]), 2)>>
    /\ PointsOf(ret)[5] # points[1]

\* C3: in a contour of at least 2 points, trace_cubic_off_points at the second
\* point of an OffCubic pair returns n_segments points running from the point
\* before the pair to the point after it (cyclically); at a point whose cyclic
\* predecessor is not OffCubic it returns nothing and raises nothing.
C3_CubicArc ==
    (pc = "cubic" /\ Len(points) >= 2) =>
        /\ (/\ At(tags, idx) = FT_Curve_Tag_Cubic
            /\ PrevTag = FT_Curve_Tag_Cubic
            /\ n_segments >= 2) =>
               /\ err = NoError
               /\ Len(ret) = 2 * n_segments
               /\ PointsOf(ret)[1] = At(points, idx - 2)
               /\ PointsOf(ret)[n_segments] = At(points, idx + 1)
        /\ PrevTag # FT_Curve_Tag_Cubic => (err = NoError /\ ret = <<>>)

\* The pair ends at the contour's last index, so the point after it is index 0.
C3_Witness ==
    /\ pc = "cubic"
    /\ err = NoError
    /\ Len(points) = 4
    /\ idx = 3
    /\ tags = <<FT_Curve_Tag_On, FT_Curve_Tag_On, FT_Curve_Tag_Cubic, FT_Curve_Tag_Cubic>>
    /\ n_segments = 3
    /\ Len(ret) = 6
    /\ points[1] # points[2]
    /\ PointsOf(ret)[1] = points[2]
    /\ PointsOf(ret)[3] = points[1]

----------------------------------------------------------------------------
(* C7: unsupported adjacency, met directly and through glyph2vertices *)

InitAbort == InitArc \/ Init
NextAbort == NextArc \/ Next
SpecAbort == InitAbort /\ [][NextAbort]_vars

\* Conic point i of the contour with tags T has a neighbour that is neither
\* OnCurve nor OffConic.
BadConic(T, i) ==
    /\ At(T, i) = FT_Curve_Tag_Conic
    /\ ~Anchorable(At(T, i - 1)) \/ ~Anchorable(At(T, i + 1))

HasBadConic(T) == \E i \in 0..(Len(T) - 1) : BadConic(T, i)

\* C7: trace_conic_off_points at an OffConic point with a neighbour that is
\* neither OnCurve nor OffConic fails with an error naming the point index and
\* the neighbour's tag and returns no points; glyph2vertices then aborts, and
\* no traced contour exists for a contour holding such a point.
C7_UnsupportedAdjacency ==
    /\ (pc = "conic" /\ BadConic(tags, idx)) =>
          /\ err.type = "ValueError"
          /\ err.idx = idx
          /\ err.tag \in {PrevTag, NextTag}
          /\ ~Anchorable(err.tag)
          /\ ret = <<>>
    /\ pc \in {"glyph2vertices", "vertices2lines", "done"} =>
          \A j \in 1..Len(c_draw_contours) : ~HasBadConic(ContourTags(j))
    /\ (pc = "raised" /\ HasBadConic(ContourTags(ci + 1))) =>
          /\ err.type = "ValueError"
          /\ BadConic(ContourTags(ci + 1), err.idx)
          /\ ~Anchorable(err.tag)
          /\ Len(c_draw_contours) = ci
          /\ lines = <<>>

\* Directly: the previous neighbour of the conic point is OffCubic.
C7_Witness ==
    /\ pc = "conic"
    /\ Len(points) = 3
    /\ idx = 1
    /\ tags = <<FT_Curve_Tag_Cubic, FT_Curve_Tag_Conic, FT_Curve_Tag_On>>
    /\ err = ValueError(1, FT_Curve_Tag_Cubic)
    /\ ret = <<>>

\* Through glyph2vertices: the second contour aborts the trace.
C7_WitnessGlyph ==
    /\ pc = "raised"
    /\ ci = 1
    /\ Len(c_draw_contours) = 1
    /\ HasBadConic(ContourTags(2))
    /\ err.type = "ValueError"

----------------------------------------------------------------------------
(* C1: glyph2vertices *)

AllOn(T) == \A k \in 1..Len(T) : T[k] = FT_Curve_Tag_On

\* C1: glyph2vertices returns one traced contour per contour end, in order;
\* contour j covers the points (previous end + 1) .. (its end) and is the
\* concatenation of one piece per point (an OnCurve point itself, the arc of
\* an OffConic point, the arc of the second point of an OffCubic pair, nothing
\* for any other OffCubic point), every coordinate divided by vertAdvance; a
\* contour of OnCurve points only with vertAdvance = 1 comes back unchanged.
C1_TracedContours ==
    (JustTraced /\ n_segments >= 2) =>
        /\ Len(c_draw_contours) = Len(contours)
        /\ \A j \in 1..Len(c_draw_contours) :
             LET P == ContourPoints(j)
                 T == ContourTags(j)
             IN  /\ Len(c_draw_contours[j]) % 2 = 0
                 /\ PointsOf(c_draw_contours[j])
                      = Scaled(Pieces(P, T, 0, n_segments), vertAdvance)
                 /\ (AllOn(T) /\ vertAdvance = 1) =>
                       PointsOf(c_draw_contours[j]) = P

\* A glyph of two contours has been traced with vertAdvance = 2: the first
\* contour is an OnCurve point and a conic arc, the second a single point.
C1_Witness ==
    /\ pc = "vertices2lines"
    /\ vertAdvance = 2
    /\ n_segments = 3
    /\ contours = <<1, 2>>
    /\ tags = <<FT_Curve_Tag_On, FT_Curve_Tag_Conic, FT_Curve_Tag_On>>
    /\ points[2] # points[3]
    /\ Len(c_draw_contours) = 2
    /\ Len(c_draw_contours[1]) = 8
    /\ PointsOf(c_draw_contours[2]) = <<PDivInt(points[3], 2)>>

----------------------------------------------------------------------------
(* C5, C9: vertices2lines *)

\* The step of vertices2lines that consumes the next traced contour.
FlattenStep == pc = "vertices2lines" /\ vi' = vi + 1

\* What that step appended to the line buffer.
Added == SubSeq(lines', Len(lines) + 1, Len(lines'))

\* The segment from point a to point b in the (x1, y1, x2, y2) layout.
Segment(a, b) == <<a[1], a[2], b[1], b[2]>>

\* Segment number k (from 1) of the appended scalars.
SegmentAt(flat, k) == SubSeq(flat, 4 * k - 3, 4 * k)

SquareFlat ==
    <<RInt(0), RInt(0), RInt(0), RInt(1), RInt(1), RInt(1), RInt(1), RInt(0)>>

SquareLines ==
    <<RInt(0), RInt(0), RInt(0), RInt(1),
      RInt(0), RInt(1), RInt(1), RInt(1),
      RInt(1), RInt(1), RInt(1), RInt(0),
      RInt(1), RInt(0), RInt(0), RInt(0)>>

\* C5: vertices2lines appends, contour after contour, the segments of each
\* contour: segment k joins vertex k to vertex k+1, and for an even point
\* count one final segment joins the last point to the first; the square
\* yields its four sides.
C5_Flatten ==
    [][FlattenStep =>
        LET V == PointsOf(c_draw_contours[vi + 1])
            N == Len(V)
        IN  /\ SubSeq(lines', 1, Len(lines)) = lines
            /\ Len(Added) >= 4 * (N - 1)
            /\ \A k \in 1..(N - 1) : SegmentAt(Added, k) = Segment(V[k], V[k + 1])
            /\ (N % 2 = 0 /\ N > 0) =>
                  /\ Len(Added) = 4 * N
                  /\ SegmentAt(Added, N) = Segment(V[N], V[1])
            /\ N = 0 => Added = <<>>
            /\ c_draw_contours[vi + 1] = SquareFlat => Added = SquareLines]_vars

\* The square has been flattened.
C5_Witness ==
    /\ pc = "done"
    /\ vi = 1
    /\ c_draw_contours = <<SquareFlat>>
    /\ lines = SquareLines

\* C9: for a traced contour with an odd point count the closing step selects
\* nothing, so no segment from the last point to the first is emitted.
C9_OddNotClosed ==
    [][FlattenStep =>
        LET V == PointsOf(c_draw_contours[vi + 1])
            N == Len(V)
        IN  N % 2 = 1 =>
               /\ Len(Added) = 4 * N - 2
               /\ SubSeq(Added, Len(Added) - 3, Len(Added)) # Segment(V[N], V[1])]_vars

\* C9 as the code has it: a traced contour holds two scalars per point, so its
\* length is even whatever its point count; the closing step takes contour[0:2]
\* and a contour with an odd point count is closed from its last point to its
\* first like any other.
C9_OddClosed ==
    [][FlattenStep =>
        LET contour == c_draw_contours[vi + 1]
            V == PointsOf(contour)
            N == Len(V)
        IN  N % 2 = 1 =>
               /\ Len(contour) % 2 = 0
               /\ Len(Added) = 4 * N
               /\ SegmentAt(Added, N) = Segment(V[N], V[1])]_vars

\* A contour of three distinct points has been flattened into three segments.
C9_Witness ==
    /\ pc = "done"
    /\ vi = 1
    /\ Len(c_draw_contours[1]) = 6
    /\ PointsOf(c_draw_contours[1])[3] # PointsOf(c_draw_contours[1])[1]
    /\ Len(lines) = 12
    /\ SegmentAt(lines, 3) = Segment(PointsOf(c_draw_contours[1])[3],
                                     PointsOf(c_draw_contours[1])[1])

----------------------------------------------------------------------------
(* C6: the single-arc glyph *)

\* One contour of three points, an OffConic point between two OnCurve anchors
\* (in any of its three rotations), traced with 5 samples.
SingleArc ==
    /\ JustTraced
    /\ n_segments = 5
    /\ contours = <<2>>
    /\ tags \in {<<FT_Curve_Tag_On, FT_Curve_Tag_Conic, FT_Curve_Tag_On>>,
                 <<FT_Curve_Tag_Conic, FT_Curve_Tag_On, FT_Curve_Tag_On>>,
                 <<FT_Curve_Tag_On, FT_Curve_Tag_On, FT_Curve_Tag_Conic>>}

\* Index (from 0) of the OffConic point of the single-arc glyph.
ArcIndex == CHOOSE i \in 0..2 : tags[i + 1] = FT_Curve_Tag_Conic

\* (wa * a + wb * b + wc * c) / (den * vertAdvance), coordinate by coordinate.
Blend(wa, a, wb, b, wc, c, den) ==
    <<RDivInt(RAdd(RAdd(RMul(RInt(wa), a[1]), RMul(RInt(wb), b[1])), RMul(RInt(wc), c[1])),
              den * vertAdvance),
      RDivInt(RAdd(RAdd(RMul(RInt(wa), a[2]), RMul(RInt(wb), b[2])), RMul(RInt(wc), c[2])),
              den * vertAdvance)>>

\* C6: the traced contour of the single-arc glyph has exactly 5 points, the
\* two anchors first and last.
C6_FivePoints ==
    SingleArc =>
        LET V == PointsOf(c_draw_contours[1])
            A == At(points, ArcIndex - 1)
            B == At(points, ArcIndex)
            C == At(points, ArcIndex + 1)
        IN  /\ Len(V) = 5
            /\ V[1] = Blend(1, A, 0, B, 0, C, 1)
            /\ V[Len(V)] = Blend(0, A, 0, B, 1, C, 1)

\* C6 as the code has it: the arc traced for the OffConic point has exactly 5
\* points (the anchors first and last, the curve at u = 1/4, 1/2, 3/4 between
\* them), and the traced contour has 7: the arc stands at the OffConic point's
\* place and each anchor is also emitted at its own place as the OnCurve
\* point it is.
C6_ArcPlusAnchors ==
    SingleArc =>
        LET V == PointsOf(c_draw_contours[1])
            i == ArcIndex
            A == At(points, i - 1)
            B == At(points, i)
            C == At(points, i + 1)
        IN  /\ Len(V) = 7
            /\ V[i + 1] = Blend(1, A, 0, B, 0, C, 1)
            /\ V[i + 2] = Blend(9, A, 6, B, 1, C, 16)
            /\ V[i + 3] = Blend(1, A, 2, B, 1, C, 4)
            /\ V[i + 4] = Blend(1, A, 6, B, 9, C, 16)
            /\ V[i + 5] = Blend(0, A, 0, B, 1, C, 1)
            /\ \A k \in 0..2 :
                  /\ k < i => V[k + 1] = Blend(1, At(points, k), 0, B, 0, B, 1)
                  /\ k > i => V[k + 5] = Blend(1, At(points, k), 0, B, 0, B, 1)
            /\ Cardinality({k \in 1..7 : V[k] = V[i + 1]}) >= 2
            /\ Cardinality({k \in 1..7 : V[k] = V[i + 5]}) >= 2

\* The single-arc glyph over three distinct, non-collinear points is traced:
\* OnCurve, OffConic, OnCurve in this order.
C6_Witness ==
    /\ SingleArc
    /\ ArcIndex = 1
    /\ vertAdvance = 2
    /\ points = Outline(GenericPool, 3)
    /\ Len(c_draw_contours[1]) = 14
    /\ c_draw_contours[1][1] = c_draw_contours[1][3]
    /\ c_draw_contours[1][2] = c_draw_contours[1][4]

----------------------------------------------------------------------------
(* C10: the traced contour is gap-free *)

\* Cubic points come in pairs flanked by OnCurve points; no other tags than
\* OnCurve, OffConic and OffCubic.
Accepted(T) ==
    \A i \in 0..(Len(T) - 1) :
        /\ At(T, i) \in {FT_Curve_Tag_On, FT_Curve_Tag_Conic, FT_Curve_Tag_Cubic}
        /\ At(T, i) = FT_Curve_Tag_Cubic =>
              \/ /\ At(T, i + 1) = FT_Curve_Tag_Cubic
                 /\ At(T, i - 1) = FT_Curve_Tag_On
                 /\ At(T, i + 2) = FT_Curve_Tag_On
              \/ /\ At(T, i - 1) = FT_Curve_Tag_Cubic
                 /\ At(T, i - 2) = FT_Curve_Tag_On
                 /\ At(T, i + 1) = FT_Curve_Tag_On

\* Number of points the walk emits for point i.
Emits(T, i, s) ==
    IF At(T, i) = FT_Curve_Tag_On THEN 1
    ELSE IF At(T, i) = FT_Curve_Tag_Conic THEN s
    ELSE IF SecondOfPair(T, i) THEN s
    ELSE 0

RECURSIVE Offset(_, _, _)
\* Number of points emitted before point i.
Offset(T, i, s) == IF i = 0 THEN 0 ELSE Offset(T, i - 1, s) + Emits(T, i - 1, s)

RECURSIVE NextEmitting(_, _, _)
\* The first emitting point from i on, cyclically.
NextEmitting(T, i, s) ==
    IF Emits(T, i, s) > 0 THEN (i + Len(T)) % Len(T) ELSE NextEmitting(T, i + 1, s)

\* C10: in the traced contour of an accepted contour the piece of every point
\* ends where the piece of the cyclically next emitting point starts, unless
\* both are plain OnCurve points; the wrap from the last index to index 0
\* included.
C10_GapFree ==
    (JustTraced /\ n_segments >= 2) =>
        \A j \in 1..Len(c_draw_contours) :
            LET T == ContourTags(j)
                V == PointsOf(c_draw_contours[j])
                s == n_segments
            IN  Accepted(T) =>
                  /\ Len(V) = Offset(T, Len(T), s)
                  /\ \A i \in 0..(Len(T) - 1) :
                        LET nx == NextEmitting(T, i + 1, s)
                        IN  (/\ Emits(T, i, s) > 0
                             /\ ~(At(T, i) = FT_Curve_Tag_On /\ At(T, nx) = FT_Curve_Tag_On)) =>
                               V[Offset(T, i, s) + Emits(T, i, s)] = V[Offset(T, nx, s) + 1]

\* A contour whose cubic pair wraps from the last index to index 0, next to a
\* conic arc that follows an OnCurve point.
C10_Witness ==
    /\ pc = "vertices2lines"
    /\ n_segments = 3
    /\ contours = <<3>>
    /\ points = Outline(GenericPool, 4)
    /\ tags = <<FT_Curve_Tag_Cubic, FT_Curve_Tag_On, FT_Curve_Tag_On, FT_Curve_Tag_Cubic>>
    /\ Len(c_draw_contours[1]) = 10

\* A contour of two consecutive conic points closed by one OnCurve point.
C10_WitnessConic ==
    /\ pc = "vertices2lines"
    /\ n_segments = 3
    /\ contours = <<2>>
    /\ points = Outline(GenericPool, 3)
    /\ tags = <<FT_Curve_Tag_Conic, FT_Curve_Tag_Conic, FT_Curve_Tag_On>>
    /\ Len(c_draw_contours[1]) = 14

====
